---- MODULE Spec2Model ----
(***************************************************************************)
(* Model of xbrl_footnote_text.ipynb: the archive fetcher                  *)
(* (download_xbrl_fin_notes), the notebook's table pipeline (read_csv,     *)
(* projection, isin filters, merge, to_csv) and the word counter           *)
(* (rx_word / count_words).                                                *)
(*                                                                         *)
(* Text is a sequence of one-character strings.  A loaded table cell is a  *)
(* pair <<kind, payload>>: a str, an int, a whole float, or float('nan'),   *)
(* as read_csv gives an object column str cells and a numeric column       *)
(* numbers, and nan for a missing field in both.                           *)
(***************************************************************************)
EXTENDS Integers, Sequences, FiniteSets, TLC

VARIABLES
    \* count_words called on its own: the argument, what each call gave back
    cw_text, cw_returns,
    \* fetcher: local files, and the trace of the calls made
    archive, folder, hist,
    \* notebook run: the two extracted files, the dataframes, the written file
    sub_tsv, txt_tsv, df_sub, df_sub_filtered, df_txt, df_txt_filtered, df_fn,
    footnote_output, text, words, pc, error,
    \* the written file loaded again with pd.read_csv
    df_reload

cw_vars == <<cw_text, cw_returns>>
fetch_vars == <<archive, folder, hist>>
nb_vars == <<sub_tsv, txt_tsv, df_sub, df_sub_filtered, df_txt, df_txt_filtered,
             df_fn, footnote_output, text, words, pc, error>>
rt_vars == <<df_reload>>
vars == <<cw_vars, fetch_vars, nb_vars, rt_vars>>

-----------------------------------------------------------------------------
(* Characters and the classes the regular expression distinguishes.        *)

Lower == {"a", "b", "c", "d", "e", "f", "g", "h", "i", "j", "k", "l", "m",
          "n", "o", "p", "q", "r", "s", "t", "u", "v", "w", "x", "y", "z"}
Upper == {"A", "B", "C", "D", "E", "F", "G", "H", "I", "J", "K", "L", "M",
          "N", "O", "P", "Q", "R", "S", "T", "U", "V", "W", "X", "Y", "Z"}
Digit == {"0", "1", "2", "3", "4", "5", "6", "7", "8", "9"}

\* \w of the re module on ASCII text: letters, digits, underscore
IsWordChar(c) == c \in Lower \cup Upper \cup Digit \cup {"_"}

\* the class without the hyphen, [a-zA-Z']
InWordClass_no_hyphen(c) == c \in Lower \cup Upper \cup {"'"}

\* the character class [a-zA-Z'-] of rx_word
InWordClass(c) == c \in Lower \cup Upper \cup {"'", "-"}

\* \b at offset p (0 .. Len(s)): exactly one side of the offset is a \w character
WordBoundary(s, p) ==
    LET before == p >= 1 /\ IsWordChar(s[p])
        after == p < Len(s) /\ IsWordChar(s[p + 1])
    IN before # after

\* the offset where the run of class characters starting at offset p ends
RECURSIVE RunEnd(_, _)
RunEnd(s, p) ==
    IF p < Len(s) /\ InWordClass(s[p + 1]) THEN RunEnd(s, p + 1) ELSE p

\* a match that never gives characters back: the whole run, or nothing
MatchAt_no_backtrack(s, p) ==
    IF WordBoundary(s, p) /\ RunEnd(s, p) > p /\ WordBoundary(s, RunEnd(s, p))
    THEN RunEnd(s, p) ELSE -1

\* rx_word matched at offset p: \b, then [a-zA-Z'-]+ greedy, giving characters
\* back until \b holds; the end offset of the match, or -1 when there is none
MatchAt(s, p) ==
    IF ~WordBoundary(s, p) THEN -1
    ELSE LET ends == {j \in (p + 1)..RunEnd(s, p) : WordBoundary(s, j)}
         IN IF ends = {} THEN -1
            ELSE CHOOSE j \in ends : \A k \in ends : k <= j

\* rx_word.findall(text) from offset p on: the leftmost match, then the scan
\* resumes where the match ended
RECURSIVE FindAllFrom(_, _)
FindAllFrom(s, p) ==
    IF p >= Len(s) THEN <<>>
    ELSE LET e == MatchAt(s, p)
         IN IF e = -1 THEN FindAllFrom(s, p + 1)
            ELSE <<SubSeq(s, p + 1, e)>> \o FindAllFrom(s, e)

rx_word_findall(s) == FindAllFrom(s, 0)

-----------------------------------------------------------------------------
(* Table cells.                                                            *)

Str(s) == <<"str", s>>
IntCell(n) == <<"int", n>>
FloatCell(n) == <<"float", n>>
NaN == <<"nan", <<>>>>
IsStr(v) == v[1] = "str"

\* what a Python call gives back: a value, or the exception it raises
Returned(v) == [raised |-> "none", value |-> v]
Raised(e) == [raised |-> e, value |-> 0]

\* re's findall accepts a str only: a float (nan) or an int raises TypeError
count_words(v) ==
    IF IsStr(v) THEN Returned(Len(rx_word_findall(v[2]))) ELSE Raised("TypeError")

-----------------------------------------------------------------------------
(* The fetcher, download_xbrl_fin_notes(year, month).                      *)

MaxCalls == 3

Years == {2021}
Months == {1, 12}
StatusCodes == {200, 403, 404}

\* f'{year}_{month:02}_notes.zip': the year, then the month on two digits at least
FileName(y, m) == <<y, m \div 10, m % 10>>
FileNames == {FileName(y, m) : y \in Years, m \in Months}

\* what the network, the server and the disk do during one call that finds no
\* local archive: requests.get raises; a response with a status; after a 200,
\* open() fails, copyfileobj fails midway, the body is no zip archive,
\* extractall fails midway, or all of it works
Outcomes ==
    {[step |-> "get", status |-> 0]}
    \cup {[step |-> "response", status |-> c] : c \in StatusCodes \ {200}}
    \cup {[step |-> k, status |-> 200] : k \in {"open", "copy", "badzip", "extract", "done"}}

\* the body written to another place than the one the call looks at
ArchiveAfter_elsewhere(o) == "absent"

\* the archive file after the call: open(..., 'wb') creates it, copyfileobj fills it
ArchiveAfter(o) ==
    CASE o.step \in {"get", "response", "open"} -> "absent"
      [] o.step = "copy" -> "truncated"
      [] o.step = "badzip" -> "invalid"
      [] OTHER -> "zip"

\* the extraction folder after the call: mkdir(exist_ok=True), then extractall
FolderAfter(o, was) ==
    CASE o.step = "extract" -> "partial"
      [] o.step = "done" -> "complete"
      [] OTHER -> was

\* how the call ends: the function has no return statement, and raises nothing
\* itself; what the library calls raise passes through it
CallResult(o) ==
    CASE o.step = "get" -> "ConnectionError"
      [] o.step \in {"open", "copy", "extract"} -> "OSError"
      [] o.step = "badzip" -> "BadZipFile"
      [] OTHER -> "None"

TotalCalls == LET RECURSIVE Sum(_)
                  Sum(S) == IF S = {} THEN 0
                            ELSE LET f == CHOOSE f \in S : TRUE
                                 IN Len(hist[f]) + Sum(S \ {f})
              IN Sum(FileNames)

download_xbrl_fin_notes(y, m) ==
    LET filename == FileName(y, m)
    IN /\ TotalCalls < MaxCalls
       /\ IF archive[filename] # "absent"
          THEN \* do nothing if the output file already exists
               /\ hist' = [hist EXCEPT ![filename] = Append(@,
                              [existed |-> TRUE, requested |-> FALSE, status |-> 0,
                               result |-> "None"])]
               /\ UNCHANGED <<archive, folder>>
          ELSE \E o \in Outcomes :
               /\ archive' = [archive EXCEPT ![filename] = ArchiveAfter(o)]
               /\ folder' = [folder EXCEPT ![filename] = FolderAfter(o, @)]
               /\ hist' = [hist EXCEPT ![filename] = Append(@,
                              [existed |-> FALSE, requested |-> TRUE,
                               status |-> o.status, result |-> CallResult(o)])]
       /\ UNCHANGED <<cw_vars, nb_vars, rt_vars>>

-----------------------------------------------------------------------------
(* Tables: pd.read_csv, column projection, isin filters, merge, to_csv.    *)
(* A file is a header and lines of tab-separated fields; a dataframe is    *)
(* its columns and its rows, each row a function from column to cell.      *)

MaxSub == 3
MaxTxt == 2

Range(f) == {f[i] : i \in DOMAIN f}
IndexOf(seq, x) == CHOOSE i \in DOMAIN seq : seq[i] = x

RECURSIVE Concat(_)
Concat(seqs) == IF seqs = <<>> THEN <<>> ELSE Head(seqs) \o Concat(Tail(seqs))

\* fields read_csv takes for missing (na_filter, among its default na_values)
NaValues == {<<>>, <<"N", "A">>, <<"n", "a", "n">>, <<"N", "a", "N">>,
             <<"N", "o", "n", "e">>, <<"n", "u", "l", "l">>}

IsDigits(t) == t # <<>> /\ \A i \in DOMAIN t : t[i] \in Digit

DigitValue(c) == CHOOSE n \in 0..9 : <<"0", "1", "2", "3", "4", "5", "6", "7", "8", "9">>[n + 1] = c

RECURSIVE ParseInt(_)
ParseInt(t) == IF t = <<>> THEN 0
               ELSE 10 * ParseInt(SubSeq(t, 1, Len(t) - 1)) + DigitValue(t[Len(t)])

RECURSIVE FormatInt(_)
FormatInt(n) ==
    LET d == <<<<"0", "1", "2", "3", "4", "5", "6", "7", "8", "9">>[(n % 10) + 1]>>
    IN IF n < 10 THEN d ELSE FormatInt(n \div 10) \o d

\* the csv reader's view of a field: one in quotes stands for its inside, with
\* each doubled quote a single one
RECURSIVE Undouble(_)
Undouble(s) ==
    IF s = <<>> THEN <<>>
    ELSE IF Len(s) >= 2 /\ s[1] = "\"" /\ s[2] = "\""
         THEN <<"\"">> \o Undouble(SubSeq(s, 3, Len(s)))
         ELSE <<Head(s)>> \o Undouble(Tail(s))

\* a reader that takes the quotes for part of the text
Unquote_keep(field) == field

Unquote(field) ==
    IF Len(field) >= 2 /\ field[1] = "\"" /\ field[Len(field)] = "\""
    THEN Undouble(SubSeq(field, 2, Len(field) - 1))
    ELSE field

\* digits, a point and a zero: the text of a whole float
IsWholeFloat(t) ==
    Len(t) >= 3 /\ t[Len(t) - 1] = "." /\ t[Len(t)] = "0"
                /\ IsDigits(SubSeq(t, 1, Len(t) - 2))

ParseNumber(t) == IF IsDigits(t) THEN ParseInt(t) ELSE ParseInt(SubSeq(t, 1, Len(t) - 2))

\* pd.read_csv(file, sep='\t'): the header names the columns; a column whose
\* present fields are all numbers is numeric (int64 when all are digits and
\* none is missing, float64 otherwise), any other column holds str; a missing
\* field is nan
read_csv(file) ==
    LET n == Len(file.lines)
        Field(i, k) == Unquote(file.lines[i][k])
        Missing(i, k) == Field(i, k) \in NaValues
        Numeric(k) == /\ \E i \in 1..n : ~Missing(i, k)
                      /\ \A i \in 1..n : \/ Missing(i, k)
                                         \/ IsDigits(Field(i, k))
                                         \/ IsWholeFloat(Field(i, k))
        Whole(k) == \A i \in 1..n : ~Missing(i, k) /\ IsDigits(Field(i, k))
        Cell(i, k) == IF Missing(i, k) THEN NaN
                      ELSE IF ~Numeric(k) THEN Str(Field(i, k))
                      ELSE IF Whole(k) THEN IntCell(ParseNumber(Field(i, k)))
                      ELSE FloatCell(ParseNumber(Field(i, k)))
    IN [cols |-> file.header,
        rows |-> [i \in 1..n |->
                    [c \in Range(file.header) |-> Cell(i, IndexOf(file.header, c))]]]

\* df[[...]]: the listed columns, in the listed order
Project(df, columns) ==
    [cols |-> columns,
     rows |-> [i \in DOMAIN df.rows |-> [c \in Range(columns) |-> df.rows[i][c]]]]

LowerSeq == <<"a", "b", "c", "d", "e", "f", "g", "h", "i", "j", "k", "l", "m",
              "n", "o", "p", "q", "r", "s", "t", "u", "v", "w", "x", "y", "z">>
UpperSeq == <<"A", "B", "C", "D", "E", "F", "G", "H", "I", "J", "K", "L", "M",
              "N", "O", "P", "Q", "R", "S", "T", "U", "V", "W", "X", "Y", "Z">>
ToLower(t) == [i \in DOMAIN t |->
                 IF t[i] \in Upper THEN LowerSeq[IndexOf(UpperSeq, t[i])] ELSE t[i]]

\* a membership test that ignores case
isin_nocase(cell, values) ==
    IsStr(cell) /\ ToLower(cell[2]) \in {ToLower(v) : v \in Range(values)}

\* Series.isin(values) for a list of str: a cell passes when it is a str equal
\* to one of them
isin(cell, values) == cell \in {Str(v) : v \in Range(values)}

\* df[df[col].isin(values)]: the passing rows, in order
FilterIsin(df, col, values) ==
    [cols |-> df.cols,
     rows |-> SelectSeq(df.rows, LAMBDA r : isin(r[col], values))]

RECURSIVE Uniq(_)
Uniq(seq) ==
    IF seq = <<>> THEN <<>>
    ELSE LET u == Uniq(SubSeq(seq, 1, Len(seq) - 1))
             x == seq[Len(seq)]
         IN IF x \in Range(u) THEN u ELSE Append(u, x)

\* the positions of the rows whose key cell is key, in order
RowsWithKey(rows, on, key) ==
    SelectSeq([i \in DOMAIN rows |-> i], LAMBDA i : rows[i][on] = key)

\* a lookup: each left row with the first right row of its key only
merge_pairs_first_match(lrows, rrows, on, keep_left_order) ==
    Concat([j \in DOMAIN lrows |->
              LET ri == RowsWithKey(rrows, on, lrows[j][on])
              IN IF ri = <<>> THEN <<>> ELSE <<<<j, ri[1]>>>>])

\* a cross join: every left row with every right row
merge_pairs_cross(lrows, rrows, on, keep_left_order) ==
    Concat([j \in DOMAIN lrows |-> [k \in DOMAIN rrows |-> <<j, k>>]])

\* the matching pairs with the right rows outermost
merge_pairs_right_major(lrows, rrows, on, keep_left_order) ==
    Concat([k \in DOMAIN rrows |->
              LET li == RowsWithKey(lrows, on, rrows[k][on])
              IN [j \in DOMAIN li |-> <<li[j], k>>]])

\* the (left position, right position) pairs of left.merge(right, on=on), an
\* inner join.  pandas numbers the keys in order of first appearance, left
\* table first, and emits the pairs key by key, left rows outermost; from
\* version 2.2 on it puts them back in the order of the left rows (stable),
\* before that it leaves them grouped by key
merge_pairs(lrows, rrows, on, keep_left_order) ==
    LET keys == Uniq([i \in DOMAIN lrows |-> lrows[i][on]]
                     \o [i \in DOMAIN rrows |-> rrows[i][on]])
        Group(key) ==
            LET li == RowsWithKey(lrows, on, key)
                ri == RowsWithKey(rrows, on, key)
            IN Concat([j \in DOMAIN li |-> [k \in DOMAIN ri |-> <<li[j], ri[k]>>]])
        grouped == Concat([g \in DOMAIN keys |-> Group(keys[g])])
    IN IF keep_left_order
       THEN Concat([j \in DOMAIN lrows |-> SelectSeq(grouped, LAMBDA p : p[1] = j)])
       ELSE grouped

\* the joined row: the left row's cells, then the right row's other cells
JoinRow(cols, lcols, l, r) ==
    [c \in Range(cols) |-> IF c \in Range(lcols) THEN l[c] ELSE r[c]]

merge(left, right, on, keep_left_order) ==
    LET cols == left.cols \o SelectSeq(right.cols, LAMBDA c : c # on)
        pairs == merge_pairs(left.rows, right.rows, on, keep_left_order)
    IN [cols |-> cols,
        rows |-> [n \in DOMAIN pairs |->
                    JoinRow(cols, left.cols, left.rows[pairs[n][1]],
                            right.rows[pairs[n][2]])]]

\* csv's minimal quoting: a field holding the separator, a quote or a line
\* break is put in quotes, its quotes doubled
RECURSIVE DoubleQuotes(_)
DoubleQuotes(s) ==
    IF s = <<>> THEN <<>>
    ELSE (IF Head(s) = "\"" THEN <<"\"", "\"">> ELSE <<Head(s)>>) \o DoubleQuotes(Tail(s))

ToField(cell) ==
    CASE cell[1] = "str" ->
            IF \E i \in DOMAIN cell[2] : cell[2][i] \in {"\t", "\"", "\n", "\r"}
            THEN <<"\"">> \o DoubleQuotes(cell[2]) \o <<"\"">>
            ELSE cell[2]
      [] cell[1] = "int" -> FormatInt(cell[2])
      [] cell[1] = "float" -> FormatInt(cell[2]) \o <<".", "0">>
      [] OTHER -> <<>>

\* to_csv without index=False: the row number leads each line, under an
\* empty column name
to_csv_with_index(df) ==
    [header |-> <<"">> \o df.cols,
     lines |-> [i \in DOMAIN df.rows |->
                  <<FormatInt(i - 1)>> \o
                  [k \in DOMAIN df.cols |-> ToField(df.rows[i][df.cols[k]])]]]

\* df.to_csv(path, sep="\t", index=False): a header line, then one line a row
to_csv(df) ==
    [header |-> df.cols,
     lines |-> [i \in DOMAIN df.rows |->
                  [k \in DOMAIN df.cols |-> ToField(df.rows[i][df.cols[k]])]]]

-----------------------------------------------------------------------------
(* The notebook's parameters (cell 4) and the columns it keeps.            *)

form_types == <<<<"1", "0", "-", "K">>, <<"1", "0", "-", "K", "/", "A">>>>

footnote_tags ==
    <<<<"S", "i", "g", "n", "i", "f", "i", "c", "a", "n", "t", "A", "c", "c",
      "o", "u", "n", "t", "i", "n", "g", "P", "o", "l", "i", "c", "i", "e",
      "s", "T", "e", "x", "t", "B", "l", "o", "c", "k">>,
      <<"B", "a", "s", "i", "s", "O", "f", "P", "r", "e", "s", "e", "n", "t",
      "a", "t", "i", "o", "n", "A", "n", "d", "S", "i", "g", "n", "i", "f",
      "i", "c", "a", "n", "t", "A", "c", "c", "o", "u", "n", "t", "i", "n",
      "g", "P", "o", "l", "i", "c", "i", "e", "s", "T", "e", "x", "t", "B",
      "l", "o", "c", "k">>,
      <<"O", "r", "g", "a", "n", "i", "z", "a", "t", "i", "o", "n", "C", "o",
      "n", "s", "o", "l", "i", "d", "a", "t", "i", "o", "n", "A", "n", "d",
      "P", "r", "e", "s", "e", "n", "t", "a", "t", "i", "o", "n", "O", "f",
      "F", "i", "n", "a", "n", "c", "i", "a", "l", "S", "t", "a", "t", "e",
      "m", "e", "n", "t", "s", "D", "i", "s", "c", "l", "o", "s", "u", "r",
      "e", "A", "n", "d", "S", "i", "g", "n", "i", "f", "i", "c", "a", "n",
      "t", "A", "c", "c", "o", "u", "n", "t", "i", "n", "g", "P", "o", "l",
      "i", "c", "i", "e", "s", "T", "e", "x", "t", "B", "l", "o", "c", "k">>>>

sub_columns == <<"adsh", "cik", "name", "sic", "form", "period", "filed">>
txt_columns == <<"adsh", "tag", "qtrs", "ddate", "value">>

-----------------------------------------------------------------------------
(* The extracted files a run may find: sub.tsv and txt.tsv with the        *)
(* columns the notebook keeps and one it drops, a few submissions and      *)
(* observations.                                                           *)

SubHeader == <<"adsh", "cik", "name", "sic", "form", "period", "fy", "filed">>
TxtHeader == <<"adsh", "tag", "ddate", "qtrs", "lang", "value">>

A1 == <<"A", "1">>
A2 == <<"A", "2">>
TextOne == <<"T", "e", "x", "t", " ", "o", "n", "e", ".">>
TextTwo == <<"T", "e", "x", "t", " ", "t", "w", "o", ".">>
OtherTag ==
    <<"s", "i", "g", "n", "i", "f", "i", "c", "a", "n", "t", "A", "c", "c",
    "o", "u", "n", "t", "i", "n", "g", "P", "o", "l", "i", "c", "i", "e",
    "s", "T", "e", "x", "t", "B", "l", "o", "c", "k">>

SubLine(adsh, form) ==
    <<adsh, <<"7">>, <<"X">>, <<"0", "9">>, form, <<"2">>, <<"1">>, <<"3">>>>
TxtLine(adsh, tag, value) ==
    <<adsh, tag, <<"2">>, <<"4">>, <<"e">>, value>>

SubLines ==
    {SubLine(A1, <<"1", "0", "-", "K">>), SubLine(A1, <<"1", "0", "-", "k">>),
     SubLine(A2, <<"1", "0", "-", "K">>), SubLine(A2, <<"8", "-", "K">>)}

TxtLines ==
    {TxtLine(A1, footnote_tags[1], TextOne), TxtLine(A2, footnote_tags[1], TextTwo),
     TxtLine(A1, footnote_tags[1], <<>>), TxtLine(A1, OtherTag, TextOne)}

SeqsUpTo(S, n) == UNION {[1..k -> S] : k \in 0..n}

NoFrame == [cols |-> <<>>, rows |-> <<>>]
NoFile == [header |-> <<>>, lines |-> <<>>]
NotSet == <<"unset", <<>>>>

-----------------------------------------------------------------------------
(* One run of the notebook, cell by cell; a cell that raises stops the run. *)

NbIdle ==
    /\ sub_tsv = NoFile /\ txt_tsv = NoFile
    /\ df_sub = NoFrame /\ df_sub_filtered = NoFrame /\ df_txt = NoFrame
    /\ df_txt_filtered = NoFrame /\ df_fn = NoFrame
    /\ footnote_output = NoFile /\ text = NotSet /\ words = <<>>
    /\ pc = "idle" /\ error = "none"

NbInit ==
    /\ sub_tsv \in {[header |-> SubHeader, lines |-> ls] : ls \in SeqsUpTo(SubLines, MaxSub)}
    /\ txt_tsv \in {[header |-> TxtHeader, lines |-> ls] : ls \in SeqsUpTo(TxtLines, MaxTxt)}
    /\ df_sub = NoFrame /\ df_sub_filtered = NoFrame /\ df_txt = NoFrame
    /\ df_txt_filtered = NoFrame /\ df_fn = NoFrame
    /\ footnote_output = NoFile /\ text = NotSet /\ words = <<>>
    /\ pc = "read_sub" /\ error = "none"

\* the cell at `at` runs and the run moves on to `next`
Step(at, next) == pc = at /\ error = "none" /\ pc' = next /\ error' = "none"

\* the cell at `at` raises e: the run stops there
Raise(at, e) == pc = at /\ error = "none" /\ pc' = at /\ error' = e

\* df_sub = pd.read_csv(sub_file, sep = '\t')
ReadSub ==
    /\ Step("read_sub", "project_sub")
    /\ df_sub' = read_csv(sub_tsv)
    /\ UNCHANGED <<sub_tsv, txt_tsv, df_sub_filtered, df_txt, df_txt_filtered, df_fn,
                   footnote_output, text, words, cw_vars, fetch_vars, rt_vars>>

\* df_sub = df_sub[['adsh','cik','name','sic','form','period','filed']]
ProjectSub ==
    /\ Step("project_sub", "filter_sub")
    /\ df_sub' = Project(df_sub, sub_columns)
    /\ UNCHANGED <<sub_tsv, txt_tsv, df_sub_filtered, df_txt, df_txt_filtered, df_fn,
                   footnote_output, text, words, cw_vars, fetch_vars, rt_vars>>

\* df_sub_filtered = df_sub[df_sub['form'].isin(form_types)]
FilterSub ==
    /\ Step("filter_sub", "read_txt")
    /\ df_sub_filtered' = FilterIsin(df_sub, "form", form_types)
    /\ UNCHANGED <<sub_tsv, txt_tsv, df_sub, df_txt, df_txt_filtered, df_fn,
                   footnote_output, text, words, cw_vars, fetch_vars, rt_vars>>

\* df_txt = pd.read_csv(txt_file, sep = '\t')
ReadTxt ==
    /\ Step("read_txt", "project_txt")
    /\ df_txt' = read_csv(txt_tsv)
    /\ UNCHANGED <<sub_tsv, txt_tsv, df_sub, df_sub_filtered, df_txt_filtered, df_fn,
                   footnote_output, text, words, cw_vars, fetch_vars, rt_vars>>

\* df_txt = df_txt[['adsh','tag','qtrs','ddate','value']]
ProjectTxt ==
    /\ Step("project_txt", "merge")
    /\ df_txt' = Project(df_txt, txt_columns)
    /\ UNCHANGED <<sub_tsv, txt_tsv, df_sub, df_sub_filtered, df_txt_filtered, df_fn,
                   footnote_output, text, words, cw_vars, fetch_vars, rt_vars>>

\* df_txt_filtered = df_sub_filtered.merge(df_txt, on = 'adsh'), with the
\* pandas at hand: one that restores the left order, or one that does not
Merge ==
    /\ Step("merge", "filter_tag")
    /\ \E keep_left_order \in BOOLEAN :
          df_txt_filtered' = merge(df_sub_filtered, df_txt, "adsh", keep_left_order)
    /\ UNCHANGED <<sub_tsv, txt_tsv, df_sub, df_sub_filtered, df_txt, df_fn,
                   footnote_output, text, words, cw_vars, fetch_vars, rt_vars>>

\* df_fn = df_txt_filtered[df_txt_filtered['tag'].isin(footnote_tags)].reset_index(drop=True)
FilterTag ==
    /\ Step("filter_tag", "to_csv")
    /\ df_fn' = FilterIsin(df_txt_filtered, "tag", footnote_tags)
    /\ UNCHANGED <<sub_tsv, txt_tsv, df_sub, df_sub_filtered, df_txt, df_txt_filtered,
                   footnote_output, text, words, cw_vars, fetch_vars, rt_vars>>

\* df_fn.to_csv(footnote_output_path, sep="\t", index=False)
ToCsv ==
    /\ Step("to_csv", "first_text")
    /\ footnote_output' = to_csv(df_fn)
    /\ UNCHANGED <<sub_tsv, txt_tsv, df_sub, df_sub_filtered, df_txt, df_txt_filtered,
                   df_fn, text, words, cw_vars, fetch_vars, rt_vars>>

\* text = df_fn.iloc[0]['value']: IndexError on a table without rows
FirstText ==
    /\ IF df_fn.rows = <<>>
       THEN Raise("first_text", "IndexError") /\ text' = text
       ELSE Step("first_text", "findall") /\ text' = df_fn.rows[1]["value"]
    /\ UNCHANGED <<sub_tsv, txt_tsv, df_sub, df_sub_filtered, df_txt, df_txt_filtered,
                   df_fn, footnote_output, words, cw_vars, fetch_vars, rt_vars>>

\* words = rx_word.findall((text)): TypeError unless text is a str
FindAll ==
    /\ IF IsStr(text)
       THEN Step("findall", "fn_length") /\ words' = rx_word_findall(text[2])
       ELSE Raise("findall", "TypeError") /\ words' = words
    /\ UNCHANGED <<sub_tsv, txt_tsv, df_sub, df_sub_filtered, df_txt, df_txt_filtered,
                   df_fn, footnote_output, text, cw_vars, fetch_vars, rt_vars>>

\* df.apply(lambda row: count_words(row['value']), axis = 1), assigned to the
\* new column fn_length; a call that raises leaves the table as it was
AddFnLength(df) ==
    LET counts == [i \in DOMAIN df.rows |-> count_words(df.rows[i]["value"])]
    IN IF \E i \in DOMAIN counts : counts[i].raised # "none"
       THEN Raised("TypeError")
       ELSE Returned([cols |-> Append(df.cols, "fn_length"),
                      rows |-> [i \in DOMAIN df.rows |->
                                  [c \in Range(df.cols) \cup {"fn_length"} |->
                                     IF c = "fn_length" THEN IntCell(counts[i].value)
                                     ELSE df.rows[i][c]]]])

\* df_fn['fn_length'] = df_fn.apply(...)
FnLength ==
    /\ LET r == AddFnLength(df_fn)
       IN IF r.raised = "none"
          THEN Step("fn_length", "done") /\ df_fn' = r.value
          ELSE Raise("fn_length", r.raised) /\ df_fn' = df_fn
    /\ UNCHANGED <<sub_tsv, txt_tsv, df_sub, df_sub_filtered, df_txt, df_txt_filtered,
                   footnote_output, text, words, cw_vars, fetch_vars, rt_vars>>

-----------------------------------------------------------------------------
(* count_words called directly, again and again on one text.               *)

MaxLen == 4
MaxRepeat == 2

Alphabet == {"a", "Z", "1", "'", "-", " "}

StateOfTheArt == 
    <<"s", "t", "a", "t", "e", "-", "o", "f", "-", "t", "h", "e", "-", "a",
      "r", "t", " ", "s", "o", "l", "u", "t", "i", "o", "n">>
CompanysPlan == 
    <<"t", "h", "e", " ", "c", "o", "m", "p", "a", "n", "y", "'", "s", " ",
      "p", "l", "a", "n">>

Texts == SeqsUpTo(Alphabet, MaxLen) \cup {StateOfTheArt, CompanysPlan, TextOne}

CwIdle == cw_text = NotSet /\ cw_returns = <<>>

CwInit == cw_text \in {Str(s) : s \in Texts} /\ cw_returns = <<>>

CallCountWords ==
    /\ Len(cw_returns) < MaxRepeat
    /\ cw_returns' = Append(cw_returns, count_words(cw_text))
    /\ UNCHANGED <<cw_text, fetch_vars, nb_vars, rt_vars>>

-----------------------------------------------------------------------------
(* The written file read back: pd.read_csv on the file df_fn.to_csv made,  *)
(* kept to the columns of the table that was written.                      *)

RtIdle == df_reload = NoFrame

WrittenColumns == SelectSeq(df_fn.cols, LAMBDA c : c # "fn_length")

Reload ==
    /\ pc \in {"first_text", "findall", "fn_length", "done"}
    /\ df_reload = NoFrame
    /\ df_reload' = Project(read_csv(footnote_output), WrittenColumns)
    /\ UNCHANGED <<cw_vars, fetch_vars, nb_vars>>

\* values an observation may carry: plain text, digits with a leading zero,
\* nothing, text holding a quote (in the file in quotes, the quote doubled)
Zero9 == <<"0", "9">>
QuotedText == <<"\"", "a", "\"", "\"", "b", "\"">>
RtValues == {TextOne, Zero9, <<>>, QuotedText}

RtSubs == {<<>>} \cup {<<l>> : l \in SubLines}
RtTxtLines == {TxtLine(A1, tag, v) : tag \in {footnote_tags[1], OtherTag}, v \in RtValues}

RtInit ==
    /\ sub_tsv \in {[header |-> SubHeader, lines |-> ls] : ls \in RtSubs}
    /\ txt_tsv \in {[header |-> TxtHeader, lines |-> ls] : ls \in SeqsUpTo(RtTxtLines, MaxTxt)}
    /\ df_sub = NoFrame /\ df_sub_filtered = NoFrame /\ df_txt = NoFrame
    /\ df_txt_filtered = NoFrame /\ df_fn = NoFrame
    /\ footnote_output = NoFile /\ text = NotSet /\ words = <<>>
    /\ pc = "read_sub" /\ error = "none"

-----------------------------------------------------------------------------
(* The specifications.                                                     *)

FetchIdle ==
    /\ archive = [f \in FileNames |-> "absent"]
    /\ folder = [f \in FileNames |-> "absent"]
    /\ hist = [f \in FileNames |-> <<>>]

\* the notebook run
Init == NbInit /\ CwIdle /\ FetchIdle /\ RtIdle
Next ==
    \/ ReadSub \/ ProjectSub \/ FilterSub \/ ReadTxt \/ ProjectTxt \/ Merge
    \/ FilterTag \/ ToCsv \/ FirstText \/ FindAll \/ FnLength
Spec == Init /\ [][Next]_vars

\* calls of the fetcher, in an empty working folder
FetchInit == FetchIdle /\ CwIdle /\ NbIdle /\ RtIdle
FetchNext == \E y \in Years, m \in Months : download_xbrl_fin_notes(y, m)
SpecFetch == FetchInit /\ [][FetchNext]_vars

\* calls of count_words
WordsInit == CwInit /\ FetchIdle /\ NbIdle /\ RtIdle
WordsNext == CallCountWords
SpecWords == WordsInit /\ [][WordsNext]_vars

\* the notebook run, and its written file read back
RoundTripInit == RtInit /\ CwIdle /\ FetchIdle /\ RtIdle
RoundTripNext == Next \/ Reload
SpecRoundTrip == RoundTripInit /\ [][RoundTripNext]_vars

-----------------------------------------------------------------------------
(* Properties of the notebook run (Spec).                                  *)

AfterMerge == pc \in {"filter_tag", "to_csv", "first_text", "findall", "fn_length", "done"}
AfterFilterTag == pc \in {"to_csv", "first_text", "findall", "fn_length", "done"}
AfterToCsv == pc \in {"first_text", "findall", "fn_length", "done"}

FormAllowed(cell) == \E k \in DOMAIN form_types : cell = <<"str", form_types[k]>>
TagAllowed(cell) == \E k \in DOMAIN footnote_tags : cell = <<"str", footnote_tags[k]>>

\* C1: every row of df_fn has its form in form_types and its tag in
\* footnote_tags, each as a str equal character by character to a list entry.
C1_FilterCorrectness ==
    AfterFilterTag =>
        \A n \in DOMAIN df_fn.rows :
            FormAllowed(df_fn.rows[n]["form"]) /\ TagAllowed(df_fn.rows[n]["tag"])

\* a run where both filters had something to reject: a 10-k submission, and a
\* joined row whose tag differs from an allowed one in case only
C1_Witness ==
    /\ pc = "to_csv"
    /\ df_fn.rows # <<>>
    /\ \E i \in DOMAIN df_sub.rows : df_sub.rows[i]["form"] = Str(<<"1", "0", "-", "k">>)
    /\ \E j \in DOMAIN df_txt_filtered.rows : df_txt_filtered.rows[j]["tag"] = Str(OtherTag)

\* the observation rows whose accession key occurs among the filtered submissions
MatchedObservations ==
    {j \in DOMAIN df_txt.rows :
        \E i \in DOMAIN df_sub_filtered.rows :
            df_sub_filtered.rows[i]["adsh"] = df_txt.rows[j]["adsh"]}

DistinctKeys(rows) ==
    \A i, j \in DOMAIN rows : i # j => rows[i]["adsh"] # rows[j]["adsh"]

\* C2 as stated: for any submissions and observations the join has as many rows
\* as there are observation rows whose key occurs among the filtered submissions.
C2_JoinCardinality ==
    AfterMerge => Len(df_txt_filtered.rows) = Cardinality(MatchedObservations)

\* C2, amended: the same, when no accession key occurs twice among the
\* filtered submissions.
C2_JoinCardinalityDistinctKeys ==
    AfterMerge /\ DistinctKeys(df_sub_filtered.rows) =>
        Len(df_txt_filtered.rows) = Cardinality(MatchedObservations)

\* two filtered submissions with different keys, one of them without an
\* observation, the other with the same observation row twice
C2_Witness ==
    /\ pc = "filter_tag"
    /\ Len(df_sub_filtered.rows) = 2 /\ DistinctKeys(df_sub_filtered.rows)
    /\ Len(df_txt.rows) = 2 /\ df_txt.rows[1] = df_txt.rows[2]
    /\ Len(df_txt_filtered.rows) = 2

\* the (submission row, observation row) pairs an output row can come from:
\* same key, allowed form, allowed tag
Qualifying ==
    {p \in (DOMAIN df_sub.rows) \X (DOMAIN df_txt.rows) :
        /\ df_sub.rows[p[1]]["adsh"] = df_txt.rows[p[2]]["adsh"]
        /\ FormAllowed(df_sub.rows[p[1]]["form"])
        /\ TagAllowed(df_txt.rows[p[2]]["tag"])}

JoinedFrom(row, p) ==
    /\ \A c \in Range(sub_columns) : row[c] = df_sub.rows[p[1]][c]
    /\ \A c \in Range(txt_columns) : row[c] = df_txt.rows[p[2]][c]

LeftOrderRows ==
    LET L == df_sub_filtered.rows
        R == df_txt.rows
        Row(i, j) == [c \in Range(sub_columns) \cup Range(txt_columns) |->
                        IF c \in Range(sub_columns) THEN L[i][c] ELSE R[j][c]]
    IN Concat([i \in DOMAIN L |->
                 Concat([j \in DOMAIN R |->
                           IF L[i]["adsh"] = R[j]["adsh"] /\ TagAllowed(R[j]["tag"])
                           THEN <<Row(i, j)>> ELSE <<>>])])

WithoutFnLength(rows) ==
    [n \in DOMAIN rows |->
        [c \in Range(sub_columns) \cup Range(txt_columns) |-> rows[n][c]]]

\* rows of one key follow each other
KeysAdjacent(rows) ==
    \A i, k \in DOMAIN rows :
        i < k /\ rows[i]["adsh"] = rows[k]["adsh"] =>
            \A m \in i..k : rows[m]["adsh"] = rows[i]["adsh"]

\* C4 as stated: the rows of df_fn are in the order of the filtered
\* submissions, the observations of one submission in their original order.
C4_LeftOrder ==
    AfterFilterTag => WithoutFnLength(df_fn.rows) = LeftOrderRows

\* C4, amended: the same, when the filtered submissions of one accession key
\* follow each other (as they do when every key occurs once).
C4_LeftOrderAdjacentKeys ==
    AfterFilterTag /\ KeysAdjacent(df_sub_filtered.rows) =>
        WithoutFnLength(df_fn.rows) = LeftOrderRows

\* two output rows of two submissions whose observations come in the other order
C4_Witness ==
    /\ pc = "to_csv"
    /\ KeysAdjacent(df_sub_filtered.rows)
    /\ Len(df_fn.rows) = 2 /\ Len(df_txt.rows) = 2
    /\ df_fn.rows[1]["adsh"] # df_fn.rows[2]["adsh"]
    /\ df_txt.rows[1]["adsh"] = df_fn.rows[2]["adsh"]

JoinedColumns == sub_columns \o Tail(txt_columns)

\* C7 as stated: the written file has one line per output record and the
\* retained submission columns, the retained observation columns and fn_length.
C7_FileCarriesFnLength ==
    AfterToCsv =>
        /\ footnote_output.header = JoinedColumns \o <<"fn_length">>
        /\ Len(footnote_output.lines) = Len(df_fn.rows)

\* C7, amended: the written file has one line per output record and the
\* retained submission and observation columns only; fn_length is added to
\* df_fn after the file is written and is not in the file.
C7_FileWithoutFnLength ==
    AfterToCsv =>
        /\ footnote_output.header = JoinedColumns
        /\ Len(footnote_output.lines) = Len(df_fn.rows)
        /\ \A n \in DOMAIN footnote_output.lines :
              Len(footnote_output.lines[n]) = Len(JoinedColumns)
        /\ pc = "done" => df_fn.cols = JoinedColumns \o <<"fn_length">>

\* a finished run that wrote two lines
C7_Witness ==
    /\ pc = "done"
    /\ Len(footnote_output.lines) = 2
    /\ "fn_length" \in Range(df_fn.cols)

\* the words of a value, a missing text counting none
WordCountOf(cell) == IF IsStr(cell) THEN Len(rx_word_findall(cell[2])) ELSE 0

FnLengthRan == pc = "done" \/ (pc = "fn_length" /\ error # "none")

ScenarioInput ==
    /\ sub_tsv.lines = <<SubLine(A1, <<"1", "0", "-", "K">>), SubLine(A2, <<"8", "-", "K">>)>>
    /\ txt_tsv.lines = <<TxtLine(A1, footnote_tags[1], TextOne),
                         TxtLine(A2, footnote_tags[1], TextTwo)>>

\* the scenario of submissions A1 (10-K) and A2 (8-K): one record, A1,
\* "Text one.", fn_length 2
ScenarioOutput ==
    ScenarioInput /\ FnLengthRan =>
        /\ Len(df_fn.rows) = 1
        /\ "fn_length" \in Range(df_fn.cols)
        /\ df_fn.rows[1]["adsh"] = Str(A1)
        /\ df_fn.rows[1]["value"] = Str(TextOne)
        /\ df_fn.rows[1]["fn_length"] = IntCell(2)

\* C8: once the word-count cell has run, df_fn has the rows it had, each with
\* an integer fn_length that is the word count of its value, whatever the
\* loader gave as value (a missing text included); and the scenario gives one
\* record, A1, "Text one.", fn_length 2.
C8_EveryRowCounted ==
    /\ FnLengthRan =>
          /\ "fn_length" \in Range(df_fn.cols)
          /\ Len(df_fn.rows) = Len(footnote_output.lines)
          /\ \A n \in DOMAIN df_fn.rows :
                df_fn.rows[n]["fn_length"] = IntCell(WordCountOf(df_fn.rows[n]["value"]))
    /\ ScenarioOutput

-----------------------------------------------------------------------------
(* Properties of the fetcher (SpecFetch).                                  *)

Requests(f) == Cardinality({i \in DOMAIN hist[f] : hist[f][i].requested})

\* a call that got a 200 response and came to its end
Completed(call) == call.requested /\ call.status = 200 /\ call.result = "None"

\* C5 as stated: two calls for one (year, month) issue at most one request in
\* total, and the second ends as the first did.
C5_AtMostOneRequest ==
    \A f \in FileNames :
        Len(hist[f]) >= 2 => Requests(f) <= 1 /\ hist[f][2].result = hist[f][1].result

\* C5, amended: a call that finds the archive file makes no request and returns
\* None; after a call that got a 200 response and came to its end no later
\* call for that (year, month) makes a request; only requests that did not
\* come to that end can be followed by another one.
C5_NoRequestOnceStored ==
    \A f \in FileNames :
        /\ \A j \in DOMAIN hist[f] :
              /\ hist[f][j].existed => ~hist[f][j].requested /\ hist[f][j].result = "None"
              /\ \A i \in 1..(j - 1) : Completed(hist[f][i]) => hist[f][j].existed
        /\ Requests(f) <= 1 + Cardinality({i \in DOMAIN hist[f] :
                                              hist[f][i].requested /\ ~Completed(hist[f][i])})

\* a completed download followed by a call that found the file
C5_Witness ==
    \E f \in FileNames :
        /\ Len(hist[f]) >= 2
        /\ Completed(hist[f][1])
        /\ hist[f][2].existed /\ ~hist[f][2].requested
        /\ folder[f] = "complete"

\* C6: a call that finds no archive and gets a response whose status is not 200
\* ends with a retrieval error for the caller.
C6_NonSuccessRaises ==
    \A f \in FileNames :
        \A i \in DOMAIN hist[f] :
            hist[f][i].requested /\ hist[f][i].status \notin {0, 200} =>
                hist[f][i].result = "RetrievalError"

\* C12: after any sequence of calls, whenever the archive file of a
\* (year, month) exists its extraction folder exists and holds all members of
\* the archive (so a call that finds an archive without its full extraction
\* would have to complete it).
C12_ArchiveImpliesExtracted ==
    \A f \in FileNames : archive[f] # "absent" => folder[f] = "complete"

-----------------------------------------------------------------------------
(* Properties of count_words (SpecWords).                                  *)

\* C9 as stated: "" gives 0, "state-of-the-art solution" 3, "the company's
\* plan" 3, and every call on one string gives what the first gave.
C9_Examples ==
    \A k \in DOMAIN cw_returns :
        /\ cw_text = Str(<<>>) => cw_returns[k] = Returned(0)
        /\ cw_text = Str(StateOfTheArt) => cw_returns[k] = Returned(3)
        /\ cw_text = Str(CompanysPlan) => cw_returns[k] = Returned(3)
        /\ cw_returns[k] = cw_returns[1]

\* C9, amended: "" gives 0, "state-of-the-art solution" 2 (the hyphenated
\* word is one word), "the company's plan" 3, and every call on one string
\* gives what the first gave.
C9_ExamplesTwoWords ==
    \A k \in DOMAIN cw_returns :
        /\ cw_text = Str(<<>>) => cw_returns[k] = Returned(0)
        /\ cw_text = Str(StateOfTheArt) => cw_returns[k] = Returned(2)
        /\ cw_text = Str(CompanysPlan) => cw_returns[k] = Returned(3)
        /\ cw_returns[k] = cw_returns[1]

\* count_words called twice on "state-of-the-art solution"
C9_Witness ==
    cw_text = Str(StateOfTheArt) /\ Len(cw_returns) >= 2 /\ cw_returns[2] = Returned(2)

\* the maximal runs of letters, apostrophes and hyphens of s, as offset pairs
MaximalRuns(s) ==
    {r \in (0..Len(s)) \X (0..Len(s)) :
        /\ r[1] < r[2]
        /\ \A k \in (r[1] + 1)..r[2] : InWordClass(s[k])
        /\ r[1] = 0 \/ ~InWordClass(s[r[1]])
        /\ r[2] = Len(s) \/ ~InWordClass(s[r[2] + 1])}

\* C10 as stated: count_words gives the number of maximal runs of letters,
\* apostrophes and hyphens that start and end at a word boundary.
C10_MaximalRunTokens ==
    \A k \in DOMAIN cw_returns :
        cw_returns[k] = Returned(Cardinality(
            {r \in MaximalRuns(cw_text[2]) :
                WordBoundary(cw_text[2], r[1]) /\ WordBoundary(cw_text[2], r[2])}))

\* C10, amended: count_words gives the number of maximal runs of letters,
\* apostrophes and hyphens that hold a token, a stretch of the run that starts
\* and ends at a word boundary; the token need not be the whole run.
C10_RunsHoldingToken ==
    \A k \in DOMAIN cw_returns :
        cw_returns[k] = Returned(Cardinality(
            {r \in MaximalRuns(cw_text[2]) :
                \E a, b \in r[1]..r[2] :
                    a < b /\ WordBoundary(cw_text[2], a) /\ WordBoundary(cw_text[2], b)}))

\* "a-": the run is the whole text, the token is "a"
C10_Witness ==
    cw_text = Str(<<"a", "-">>) /\ cw_returns # <<>> /\ cw_returns[1] = Returned(1)

-----------------------------------------------------------------------------
(* Properties of the written file read back (SpecRoundTrip).               *)

Reloaded == df_reload # NoFrame

\* text pd.read_csv takes for a number
LooksNumeric(t) == IsDigits(t) \/ IsWholeFloat(t)

\* every column of the written table that holds a str holds one that is not
\* the text of a number
NoNumericStrColumn ==
    \A c \in Range(WrittenColumns) :
        (\E n \in DOMAIN df_fn.rows : IsStr(df_fn.rows[n][c]))
            => \E n \in DOMAIN df_fn.rows :
                   IsStr(df_fn.rows[n][c]) /\ ~LooksNumeric(df_fn.rows[n][c][2])

====
